---- MODULE Spec2Model ----
(***************************************************************************)
(* Model of the TLC5940 LED driver (leds-tlc5940.c): the grayscale         *)
(* framebuffer encoder tlc5940_update_fb, the periodic BLANK timer         *)
(* tlc5940_timer_func, the transmit work tlc5940_work and the brightness   *)
(* callback tlc5940_set_brightness, with the interleavings the kernel      *)
(* allows between them (hrtimer callback, workqueue item, LED core calls). *)
(***************************************************************************)
EXTENDS Integers, Sequences, FiniteSets, TLC

(***************************************************************************)
(* Program constants (leds-tlc5940.c:33-51).                               *)
(***************************************************************************)
TLC5940_MAX_LEDS == 16
TLC5940_GS_CHANNEL_WIDTH == 12
TLC5940_FB_SIZE_BITS == TLC5940_MAX_LEDS * TLC5940_GS_CHANNEL_WIDTH
TLC5940_FB_SIZE == TLC5940_FB_SIZE_BITS \div 8
LED_OFF == 0
MAX_BRIGHTNESS == 4095

(***************************************************************************)
(* Bounds of the model.                                                    *)
(***************************************************************************)
\* number of concurrent callers of tlc5940_set_brightness
NumWriters == 2
\* cap on the number of tlc5940_set_brightness calls in a behaviour
MaxWrites == 2
\* cap on the number of timer expirations in a behaviour
MaxTicks == 3
\* most child nodes the device-tree node has
MaxChildren == 17

LedIds == 0 .. (TLC5940_MAX_LEDS - 1)
FbIndex == 0 .. (TLC5940_FB_SIZE - 1)
Writers == 1 .. NumWriters

(***************************************************************************)
(* C integer operators on non-negative operands.                           *)
(***************************************************************************)
RECURSIVE BitAnd(_, _)
BitAnd(a, b) ==
    IF a = 0 \/ b = 0 THEN 0
    ELSE (a % 2) * (b % 2) + 2 * BitAnd(a \div 2, b \div 2)

RECURSIVE BitOr(_, _)
BitOr(a, b) ==
    IF a = 0 THEN b
    ELSE IF b = 0 THEN a
    ELSE (IF (a % 2) + (b % 2) > 0 THEN 1 ELSE 0) + 2 * BitOr(a \div 2, b \div 2)

RECURSIVE Pow2(_)
Pow2(n) == IF n = 0 THEN 1 ELSE 2 * Pow2(n - 1)

Shr(a, n) == a \div Pow2(n)
Shl(a, n) == a * Pow2(n)
\* conversion to u8 on assignment into fb[]
U8(a) == a % 256

(***************************************************************************)
(* FB_OFFSET_BITS / FB_OFFSET (leds-tlc5940.c:47-51).                      *)
(***************************************************************************)
FB_OFFSET_BITS(led) ==
    TLC5940_FB_SIZE_BITS - (TLC5940_GS_CHANNEL_WIDTH * (led + 1))

FB_OFFSET_off_by_one(led) == Shr(FB_OFFSET_BITS(led), 3) + 1

FB_OFFSET_ascending(led) == Shr(TLC5940_GS_CHANNEL_WIDTH * led, 3)

FB_OFFSET(led) == Shr(FB_OFFSET_BITS(led), 3)

(***************************************************************************)
(* One iteration of the loop of tlc5940_update_fb (leds-tlc5940.c:111-127):*)
(* f is the framebuffer before the iteration, b the value read from        *)
(* leds[id].brightness.  The result is the framebuffer after it.           *)
(***************************************************************************)
update_fb_iter_keeps_nibble(f, id, b) ==
    LET brightness == BitAnd(b, 4095)
        offset == FB_OFFSET(id)
    IN  IF id % 2 = 0
        THEN [f EXCEPT
                ![offset] = U8(BitOr(BitAnd(f[offset], 240), Shr(brightness, 8))),
                ![offset + 1] = U8(BitAnd(brightness, 255))]
        ELSE [f EXCEPT ![offset] = U8(Shr(brightness, 4))]

update_fb_iter_no_mask(f, id, b) ==
    LET brightness == BitAnd(b, 4095)
        offset == FB_OFFSET(id)
    IN  IF id % 2 = 0
        THEN [f EXCEPT
                ![offset] = U8(BitOr(f[offset], Shr(brightness, 8))),
                ![offset + 1] = U8(BitAnd(brightness, 255))]
        ELSE [f EXCEPT
                ![offset] = U8(Shr(brightness, 4)),
                ![offset + 1] = U8(BitOr(f[offset + 1],
                                         BitAnd(Shl(brightness, 4), 240)))]

update_fb_iter(f, id, b) ==
    LET brightness == BitAnd(b, 4095)
        offset == FB_OFFSET(id)
        mid_byte == (id % 2 = 0)
    IN  IF mid_byte
        THEN [f EXCEPT
                ![offset] = U8(BitOr(BitAnd(f[offset], 240), Shr(brightness, 8))),
                ![offset + 1] = U8(BitAnd(brightness, 255))]
        ELSE [f EXCEPT
                ![offset] = U8(Shr(brightness, 4)),
                ![offset + 1] = U8(BitOr(BitAnd(f[offset + 1], 15),
                                         BitAnd(Shl(brightness, 4), 240)))]

\* the framebuffer indices one iteration assigns
update_fb_iter_writes(id) == {FB_OFFSET(id), FB_OFFSET(id) + 1}

(***************************************************************************)
(* tlc5940_update_fb run to completion without interference                *)
(* (leds-tlc5940.c:104-129): the loop from iteration id on, over the       *)
(* brightness values leds.                                                 *)
(***************************************************************************)
RECURSIVE update_fb_from(_, _, _)
update_fb_from(f, leds, id) ==
    IF id >= TLC5940_MAX_LEDS THEN f
    ELSE update_fb_from(update_fb_iter(f, id, leds[id]), leds, id + 1)

tlc5940_update_fb(f, leds) == update_fb_from(f, leds, 0)

\* devm_kzalloc: the framebuffer and the brightness fields start zeroed
ZeroFb == [i \in FbIndex |-> 0]
ZeroLeds == [i \in LedIds |-> LED_OFF]

(***************************************************************************)
(* State.                                                                  *)
(***************************************************************************)
VARIABLES
    brightness,       \* leds[id].brightness, id in 0..15
    fb,               \* tlc->fb, 24 bytes
    new_gs_data,      \* tlc->new_gs_data, the dirty flag
    gpio_blank_valid, \* gpio_is_valid(tlc->gpio_blank)
    blank,            \* level of the BLANK line
    timer_armed,      \* the hrtimer is enqueued
    work_pending,     \* tlc->work is queued and has not started
    work_pc,          \* position of the running tlc5940_work
    work_id,          \* loop variable id of tlc5940_update_fb
    set_pc,           \* position of each tlc5940_set_brightness caller
    set_arg,          \* its arguments: the led and the brightness
    tick_trace,       \* calls made by the latest tlc5940_timer_func
    tick_dirty,       \* new_gs_data as the latest tlc5940_timer_func read it
    sent,             \* the frame of the latest spi_write that returned 0
    spi_ret,          \* what the latest spi_write returned
    fb0,              \* fb as it was when the current tlc5940_update_fb began
    written,          \* fb indices assigned by the current tlc5940_update_fb
    snaps,            \* values of leds[].brightness since update_fb began
    runs_since_set,   \* tlc5940_work runs begun since the latest store
    fails_since_set,  \* spi_write failures since the latest store
    nticks,           \* timer expirations so far
    nwrites,          \* tlc5940_set_brightness calls so far
    children,         \* number of child nodes of the device-tree node
    probe_pc,         \* position of tlc5940_probe
    probe_i,          \* its local i
    probe_ret,        \* what it returned
    slots_written,    \* indices i of the tlc->leds[i] it has filled in
    registered,       \* leds whose led_classdev is registered
    pwm_enabled,      \* the GSCLK pwm is running
    remove_pc,        \* position of tlc5940_remove
    remove_i          \* its local i

vars == <<brightness, fb, new_gs_data, gpio_blank_valid, blank, timer_armed,
          work_pending, work_pc, work_id, set_pc, set_arg, tick_trace,
          tick_dirty, sent, spi_ret, fb0, written, snaps,
          runs_since_set, fails_since_set, nticks, nwrites, children,
          probe_pc, probe_i, probe_ret, slots_written, registered,
          pwm_enabled, remove_pc, remove_i>>

\* the state of tlc5940_probe and tlc5940_remove
lifecycle == <<children, probe_pc, probe_i, probe_ret, slots_written,
               registered, pwm_enabled, remove_pc, remove_i>>

\* the counters of runs and failures stop counting above MaxTicks, the most
\* a behaviour with MaxTicks expirations can reach
MaxRuns == MaxTicks + 1
CountUp(n) == IF n < MaxRuns THEN n + 1 ELSE n

\* leds a caller addresses and the values it passes
WriterLeds == {0, 15}
BrightnessInputs == {4095, 6844}
NoArg == [id |-> 0, value |-> 0]

(***************************************************************************)
(* Init: the state tlc5940_probe leaves (leds-tlc5940.c:175-268).          *)
(***************************************************************************)
\* flag is the value of new_gs_data: devm_kzalloc leaves it 0 and line 243
\* sets it to 1 before tlc5940_probe returns; gpio_is_valid is kernel code
\* outside src/, so what it answers for tlc->gpio_blank is an input
probe_leaves(flag) ==
    /\ brightness = ZeroLeds
    /\ fb = ZeroFb
    /\ new_gs_data = flag
    /\ gpio_blank_valid \in BOOLEAN
    /\ blank = 1
    /\ timer_armed = TRUE
    /\ work_pending = FALSE
    /\ work_pc = "idle"
    /\ work_id = 0
    /\ set_pc = [w \in Writers |-> "idle"]
    /\ set_arg = [w \in Writers |-> NoArg]
    /\ tick_trace = << >>
    /\ tick_dirty = FALSE
    /\ sent = {}
    /\ spi_ret = 0
    /\ fb0 = ZeroFb
    /\ written = {}
    /\ snaps = {}
    /\ runs_since_set = 0
    /\ fails_since_set = 0
    /\ nticks = 0
    /\ nwrites = 0
    /\ children = TLC5940_MAX_LEDS
    /\ probe_pc = "done"
    /\ probe_i = TLC5940_MAX_LEDS
    /\ probe_ret = 0
    /\ slots_written = LedIds
    /\ registered = LedIds
    /\ pwm_enabled = TRUE
    /\ remove_pc = "idle"
    /\ remove_i = 0

\* tlc5940_probe without its line 243
Init_flag_not_set == probe_leaves(FALSE)

Init == probe_leaves(TRUE)

(***************************************************************************)
(* tlc5940_timer_func (leds-tlc5940.c:77-102), one hrtimer expiration.     *)
(* It reads new_gs_data once and touches no other shared data, so it is    *)
(* one step; tick_trace keeps the order of its calls.                      *)
(***************************************************************************)
tlc5940_timer_func_always_schedules ==
    /\ timer_armed
    /\ nticks < MaxTicks
    /\ nticks' = nticks + 1
    /\ tick_dirty' = new_gs_data
    /\ IF ~gpio_blank_valid
       THEN /\ tick_trace' = <<"hrtimer_forward_now">>
            /\ timer_armed' = FALSE
            /\ UNCHANGED <<blank, work_pending>>
       ELSE /\ blank' = 0
            /\ tick_trace' = <<"hrtimer_forward_now", "gpio_set_value 1",
                               "gpio_set_value 0", "schedule_work">>
            /\ work_pending' = TRUE
            /\ timer_armed' = TRUE
    /\ UNCHANGED <<brightness, fb, new_gs_data, gpio_blank_valid, work_pc,
                   work_id, set_pc, set_arg, sent, written, snaps,
                   runs_since_set, fails_since_set, nwrites, fb0, spi_ret,
                   lifecycle>>

\* a callback that treats a failed spi_write like an invalid BLANK line
tlc5940_timer_func_stops_after_error ==
    /\ timer_armed
    /\ nticks < MaxTicks
    /\ nticks' = nticks + 1
    /\ tick_dirty' = new_gs_data
    /\ IF ~gpio_blank_valid \/ spi_ret # 0
       THEN /\ tick_trace' = <<"hrtimer_forward_now">>
            /\ timer_armed' = FALSE
            /\ UNCHANGED <<blank, work_pending>>
       ELSE /\ blank' = 0
            /\ tick_trace' = <<"hrtimer_forward_now", "gpio_set_value 1",
                               "gpio_set_value 0">>
                             \o (IF new_gs_data THEN <<"schedule_work">>
                                               ELSE << >>)
            /\ work_pending' = (work_pending \/ new_gs_data)
            /\ timer_armed' = TRUE
    /\ UNCHANGED <<brightness, fb, new_gs_data, gpio_blank_valid, work_pc,
                   work_id, set_pc, set_arg, sent, written, snaps,
                   runs_since_set, fails_since_set, nwrites, fb0, spi_ret,
                   lifecycle>>

\* a callback that keeps the timer running when the BLANK gpio is invalid
tlc5940_timer_func_restarts_when_invalid ==
    /\ timer_armed
    /\ nticks < MaxTicks
    /\ nticks' = nticks + 1
    /\ tick_dirty' = new_gs_data
    /\ IF ~gpio_blank_valid
       THEN /\ tick_trace' = <<"hrtimer_forward_now">>
            /\ timer_armed' = TRUE
            /\ UNCHANGED <<blank, work_pending>>
       ELSE /\ blank' = 0
            /\ tick_trace' = <<"hrtimer_forward_now", "gpio_set_value 1",
                               "gpio_set_value 0">>
                             \o (IF new_gs_data THEN <<"schedule_work">>
                                               ELSE << >>)
            /\ work_pending' = (work_pending \/ new_gs_data)
            /\ timer_armed' = TRUE
    /\ UNCHANGED <<brightness, fb, new_gs_data, gpio_blank_valid, work_pc,
                   work_id, set_pc, set_arg, sent, written, snaps,
                   runs_since_set, fails_since_set, nwrites, fb0, spi_ret,
                   lifecycle>>

\* the order of the older callback (lines 411-421): pulse, then forward
tlc5940_timer_func_pulse_first ==
    /\ timer_armed
    /\ nticks < MaxTicks
    /\ nticks' = nticks + 1
    /\ tick_dirty' = new_gs_data
    /\ IF ~gpio_blank_valid
       THEN /\ tick_trace' = << >>
            /\ timer_armed' = FALSE
            /\ UNCHANGED <<blank, work_pending>>
       ELSE /\ blank' = 0
            /\ tick_trace' = <<"gpio_set_value 1", "gpio_set_value 0",
                               "hrtimer_forward_now">>
                             \o (IF new_gs_data THEN <<"schedule_work">>
                                               ELSE << >>)
            /\ work_pending' = (work_pending \/ new_gs_data)
            /\ timer_armed' = TRUE
    /\ UNCHANGED <<brightness, fb, new_gs_data, gpio_blank_valid, work_pc,
                   work_id, set_pc, set_arg, sent, written, snaps,
                   runs_since_set, fails_since_set, nwrites, fb0, spi_ret,
                   lifecycle>>

tlc5940_timer_func ==
    /\ timer_armed
    /\ nticks < MaxTicks
    /\ nticks' = nticks + 1
    /\ tick_dirty' = new_gs_data
    /\ IF ~gpio_blank_valid
       THEN \* return HRTIMER_NORESTART
            /\ tick_trace' = <<"hrtimer_forward_now">>
            /\ timer_armed' = FALSE
            /\ UNCHANGED <<blank, work_pending>>
       ELSE /\ blank' = 0
            /\ tick_trace' = <<"hrtimer_forward_now", "gpio_set_value 1",
                               "gpio_set_value 0">>
                             \o (IF new_gs_data THEN <<"schedule_work">>
                                               ELSE << >>)
            \* schedule_work queues the item unless it is already pending
            /\ work_pending' = (work_pending \/ new_gs_data)
            \* return HRTIMER_RESTART
            /\ timer_armed' = TRUE
    /\ UNCHANGED <<brightness, fb, new_gs_data, gpio_blank_valid, work_pc,
                   work_id, set_pc, set_arg, sent, written, snaps,
                   runs_since_set, fails_since_set, nwrites, fb0, spi_ret,
                   lifecycle>>

(***************************************************************************)
(* tlc5940_work (leds-tlc5940.c:131-152).  The workqueue clears the        *)
(* pending bit and then calls the function; one work item never runs       *)
(* twice at once.  The function takes no lock, so every read of a          *)
(* brightness field, the spi_write and the final store are separate steps. *)
(***************************************************************************)
tlc5940_work_begin ==
    /\ work_pending
    /\ work_pc = "idle"
    /\ work_pending' = FALSE
    /\ work_pc' = "update_fb"
    /\ work_id' = 0
    /\ fb0' = fb
    /\ written' = {}
    /\ snaps' = {brightness}
    /\ runs_since_set' = CountUp(runs_since_set)
    /\ UNCHANGED <<brightness, fb, new_gs_data, gpio_blank_valid, blank,
                   timer_armed, set_pc, set_arg, tick_trace, tick_dirty,
                   sent, fails_since_set, nticks, nwrites, spi_ret,
                   lifecycle>>

\* one iteration of the loop of tlc5940_update_fb (leds-tlc5940.c:111-127)
tlc5940_work_update_fb ==
    /\ work_pc = "update_fb"
    /\ work_id < TLC5940_MAX_LEDS
    /\ fb' = update_fb_iter(fb, work_id, brightness[work_id])
    /\ written' = written \cup update_fb_iter_writes(work_id)
    /\ work_id' = work_id + 1
    /\ work_pc' = IF work_id + 1 < TLC5940_MAX_LEDS THEN "update_fb"
                                                     ELSE "spi_write"
    /\ UNCHANGED <<brightness, new_gs_data, gpio_blank_valid, blank,
                   timer_armed, work_pending, set_pc, set_arg, tick_trace,
                   tick_dirty, sent, snaps, runs_since_set, fails_since_set,
                   nticks, nwrites, fb0, spi_ret, lifecycle>>

\* what spi_write returns: 0, or a negative errno (-EIO)
SpiReturns == {0, -5}

tlc5940_work_spi_write_clears_on_error(ret) ==
    /\ work_pc = "spi_write"
    /\ spi_ret' = ret
    /\ work_pc' = "clear"
    /\ IF ret # 0
       THEN /\ fails_since_set' = CountUp(fails_since_set)
            /\ UNCHANGED sent
       ELSE /\ sent' = {fb}
            /\ UNCHANGED fails_since_set
    /\ snaps' = {}
    /\ UNCHANGED <<brightness, fb, new_gs_data, gpio_blank_valid, blank,
                   timer_armed, work_pending, work_id, set_pc, set_arg,
                   tick_trace, tick_dirty, written, runs_since_set, nticks,
                   nwrites, fb0, lifecycle>>

\* ret = spi_write(spi, fb, TLC5940_FB_SIZE); if (ret) return;
tlc5940_work_spi_write_ret(ret) ==
    /\ work_pc = "spi_write"
    /\ spi_ret' = ret
    /\ IF ret # 0
       THEN /\ work_pc' = "idle"
            /\ fails_since_set' = CountUp(fails_since_set)
            /\ UNCHANGED sent
       ELSE /\ work_pc' = "clear"
            /\ sent' = {fb}
            /\ UNCHANGED fails_since_set
    /\ snaps' = {}
    /\ UNCHANGED <<brightness, fb, new_gs_data, gpio_blank_valid, blank,
                   timer_armed, work_pending, work_id, set_pc, set_arg,
                   tick_trace, tick_dirty, written, runs_since_set, nticks,
                   nwrites, fb0, lifecycle>>

tlc5940_work_spi_write ==
    \E ret \in SpiReturns : tlc5940_work_spi_write_ret(ret)

\* tlc->new_gs_data = 0;
tlc5940_work_clear ==
    /\ work_pc = "clear"
    /\ new_gs_data' = FALSE
    /\ work_pc' = "idle"
    /\ UNCHANGED <<brightness, fb, gpio_blank_valid, blank, timer_armed,
                   work_pending, work_id, set_pc, set_arg, tick_trace,
                   tick_dirty, sent, fb0, written, snaps, runs_since_set,
                   fails_since_set, nticks, nwrites, spi_ret, lifecycle>>

(***************************************************************************)
(* tlc5940_set_brightness (leds-tlc5940.c:154-173): first the store to     *)
(* new_gs_data, outside any lock, then the store to led->brightness under  *)
(* the led's own spinlock, which tlc5940_update_fb never takes.            *)
(***************************************************************************)
tlc5940_set_brightness_flag(w) ==
    /\ set_pc[w] = "idle"
    /\ nwrites < MaxWrites
    \* brightness_set is reached through a registered led_classdev
    /\ \E id \in WriterLeds \cap registered, value \in BrightnessInputs :
          set_arg' = [set_arg EXCEPT ![w] = [id |-> id, value |-> value]]
    /\ new_gs_data' = TRUE
    /\ set_pc' = [set_pc EXCEPT ![w] = "store"]
    /\ nwrites' = nwrites + 1
    /\ UNCHANGED <<brightness, fb, gpio_blank_valid, blank, timer_armed,
                   work_pending, work_pc, work_id, tick_trace, tick_dirty,
                   sent, written, snaps, runs_since_set, fails_since_set,
                   nticks, fb0, spi_ret, lifecycle>>

\* a store that queues the transmit itself
tlc5940_set_brightness_store_schedules(w) ==
    /\ set_pc[w] = "store"
    /\ brightness' = [brightness EXCEPT ![set_arg[w].id] = set_arg[w].value]
    /\ snaps' = IF work_pc = "update_fb" THEN snaps \cup {brightness'}
                                         ELSE snaps
    /\ set_pc' = [set_pc EXCEPT ![w] = "idle"]
    /\ set_arg' = [set_arg EXCEPT ![w] = NoArg]
    /\ runs_since_set' = 0
    /\ fails_since_set' = 0
    /\ work_pending' = TRUE
    /\ UNCHANGED <<fb, new_gs_data, gpio_blank_valid, blank, timer_armed,
                   work_pc, work_id, tick_trace, tick_dirty, sent, written,
                   nticks, nwrites, fb0, spi_ret, lifecycle>>

tlc5940_set_brightness_store(w) ==
    /\ set_pc[w] = "store"
    /\ brightness' = [brightness EXCEPT ![set_arg[w].id] = set_arg[w].value]
    /\ snaps' = IF work_pc = "update_fb" THEN snaps \cup {brightness'}
                                         ELSE snaps
    /\ set_pc' = [set_pc EXCEPT ![w] = "idle"]
    /\ set_arg' = [set_arg EXCEPT ![w] = NoArg]
    /\ runs_since_set' = 0
    /\ fails_since_set' = 0
    /\ UNCHANGED <<fb, new_gs_data, gpio_blank_valid, blank, timer_armed,
                   work_pending, work_pc, work_id, tick_trace, tick_dirty,
                   sent, written, nticks, nwrites, fb0, spi_ret, lifecycle>>

Next ==
    \/ tlc5940_timer_func
    \/ tlc5940_work_begin
    \/ tlc5940_work_update_fb
    \/ tlc5940_work_spi_write
    \/ tlc5940_work_clear
    \/ \E w \in Writers : tlc5940_set_brightness_flag(w)
    \/ \E w \in Writers : tlc5940_set_brightness_store(w)

Spec == Init /\ [][Next]_vars

(***************************************************************************)
(* The driver with a timer that never stops expiring and fair scheduling.  *)
(* HRTIMER_RESTART re-enqueues the timer, so expirations recur for ever;   *)
(* those after the MaxTicks-th are the same callback and are not counted.  *)
(* The workqueue runs a pending item and a running function proceeds (WF); *)
(* spi_write may fail again and again but not for ever (SF on the return   *)
(* of 0); a tlc5940_set_brightness call that has begun returns (WF).       *)
(***************************************************************************)
tlc5940_timer_func_recurring ==
    /\ timer_armed
    /\ nticks = MaxTicks
    /\ tick_dirty' = new_gs_data
    /\ IF ~gpio_blank_valid
       THEN /\ tick_trace' = <<"hrtimer_forward_now">>
            /\ timer_armed' = FALSE
            /\ UNCHANGED <<blank, work_pending>>
       ELSE /\ blank' = 0
            /\ tick_trace' = <<"hrtimer_forward_now", "gpio_set_value 1",
                               "gpio_set_value 0">>
                             \o (IF new_gs_data THEN <<"schedule_work">>
                                               ELSE << >>)
            /\ work_pending' = (work_pending \/ new_gs_data)
            /\ timer_armed' = TRUE
    /\ UNCHANGED <<brightness, fb, new_gs_data, gpio_blank_valid, work_pc,
                   work_id, set_pc, set_arg, sent, written, snaps,
                   runs_since_set, fails_since_set, nwrites, fb0, spi_ret,
                   nticks, lifecycle>>

NextLive ==
    \/ Next
    \/ tlc5940_timer_func_recurring

Fairness ==
    /\ WF_vars(tlc5940_timer_func \/ tlc5940_timer_func_recurring)
    /\ WF_vars(tlc5940_work_begin)
    /\ WF_vars(tlc5940_work_update_fb)
    /\ WF_vars(tlc5940_work_spi_write)
    /\ SF_vars(tlc5940_work_spi_write_ret(0))
    /\ WF_vars(tlc5940_work_clear)
    /\ \A w \in Writers : WF_vars(tlc5940_set_brightness_store(w))

SpecLive == Init /\ [][NextLive]_vars /\ Fairness

(***************************************************************************)
(* tlc5940_remove (leds-tlc5940.c:278-298), called on a device that        *)
(* tlc5940_probe set up, while the timer, the work and the callers of      *)
(* tlc5940_set_brightness go on.  hrtimer_cancel and cancel_work_sync wait *)
(* for a running callback; led_classdev_unregister waits for a caller that *)
(* is inside brightness_set of that led and, depending on the kernel, may  *)
(* itself call brightness_set(LED_OFF).                                    *)
(***************************************************************************)
\* pwm_disable(pwm);
tlc5940_remove_pwm_disable ==
    /\ remove_pc = "idle"
    /\ probe_pc = "done"
    /\ probe_ret = 0
    /\ pwm_enabled' = FALSE
    /\ remove_pc' = "hrtimer_cancel"
    /\ UNCHANGED <<brightness, fb, new_gs_data, gpio_blank_valid, blank,
                   timer_armed, work_pending, work_pc, work_id, set_pc,
                   set_arg, tick_trace, tick_dirty, sent, spi_ret, fb0,
                   written, snaps, runs_since_set, fails_since_set, nticks,
                   nwrites, children, probe_pc, probe_i, probe_ret,
                   slots_written, registered, remove_i>>

\* hrtimer_cancel(timer);
tlc5940_remove_hrtimer_cancel ==
    /\ remove_pc = "hrtimer_cancel"
    /\ timer_armed' = FALSE
    /\ remove_pc' = "cancel_work_sync"
    /\ UNCHANGED <<brightness, fb, new_gs_data, gpio_blank_valid, blank,
                   work_pending, work_pc, work_id, set_pc, set_arg,
                   tick_trace, tick_dirty, sent, spi_ret, fb0, written,
                   snaps, runs_since_set, fails_since_set, nticks, nwrites,
                   children, probe_pc, probe_i, probe_ret, slots_written,
                   registered, pwm_enabled, remove_i>>

\* a cancel that does not wait for a running tlc5940_work
tlc5940_remove_cancel_work_no_sync ==
    /\ remove_pc = "cancel_work_sync"
    /\ work_pending' = FALSE
    /\ remove_i' = 0
    /\ remove_pc' = "unregister"
    /\ UNCHANGED <<brightness, fb, new_gs_data, gpio_blank_valid, blank,
                   timer_armed, work_pc, work_id, set_pc, set_arg,
                   tick_trace, tick_dirty, sent, spi_ret, fb0, written,
                   snaps, runs_since_set, fails_since_set, nticks, nwrites,
                   children, probe_pc, probe_i, probe_ret, slots_written,
                   registered, pwm_enabled>>

\* cancel_work_sync(work); then i = 0
tlc5940_remove_cancel_work_sync ==
    /\ remove_pc = "cancel_work_sync"
    /\ work_pc = "idle"
    /\ work_pending' = FALSE
    /\ remove_i' = 0
    /\ remove_pc' = "unregister"
    /\ UNCHANGED <<brightness, fb, new_gs_data, gpio_blank_valid, blank,
                   timer_armed, work_pc, work_id, set_pc, set_arg,
                   tick_trace, tick_dirty, sent, spi_ret, fb0, written,
                   snaps, runs_since_set, fails_since_set, nticks, nwrites,
                   children, probe_pc, probe_i, probe_ret, slots_written,
                   registered, pwm_enabled>>

\* one iteration of the loop: led_classdev_unregister(&tlc->leds[i].ldev)
tlc5940_remove_unregister ==
    /\ remove_pc = "unregister"
    /\ remove_i < TLC5940_MAX_LEDS
    /\ \A w \in Writers :
          set_pc[w] = "store" => set_arg[w].id # remove_i
    /\ \E off \in BOOLEAN :
          IF off /\ remove_i \in registered
          THEN \* brightness_set(LED_OFF), that is tlc5940_set_brightness
               /\ new_gs_data' = TRUE
               /\ brightness' = [brightness EXCEPT ![remove_i] = LED_OFF]
          ELSE UNCHANGED <<new_gs_data, brightness>>
    /\ registered' = registered \ {remove_i}
    /\ remove_i' = remove_i + 1
    \* on a led_classdev that was never registered the call dereferences
    \* a null led_cdev->dev: it may oops, and tlc5940_remove never returns
    /\ remove_pc' \in
          {IF remove_i + 1 < TLC5940_MAX_LEDS THEN "unregister" ELSE "done"}
          \cup (IF remove_i \in registered THEN {} ELSE {"oops"})
    /\ UNCHANGED <<fb, gpio_blank_valid, blank, timer_armed, work_pending,
                   work_pc, work_id, set_pc, set_arg, tick_trace,
                   tick_dirty, sent, spi_ret, fb0, written, snaps,
                   runs_since_set, fails_since_set, nticks, nwrites,
                   children, probe_pc, probe_i, probe_ret, slots_written,
                   pwm_enabled>>

tlc5940_remove ==
    \/ tlc5940_remove_pwm_disable
    \/ tlc5940_remove_hrtimer_cancel
    \/ tlc5940_remove_cancel_work_sync
    \/ tlc5940_remove_unregister

NextRemove ==
    \/ Next
    \/ tlc5940_remove

SpecRemove == Init /\ [][NextRemove]_vars

(***************************************************************************)
(* The encoder alone: tlc5940_update_fb entered with a bounded choice of   *)
(* brightness values and of earlier framebuffer contents, and run with no  *)
(* other thread.                                                           *)
(***************************************************************************)
\* values of one brightness field: the 12-bit boundaries, 0xABC, and 0x1ABC
EncValues == {0, 1, 4094, 4095, 2748, 6844}
EncBackgrounds == {0, 4095, 1445}
\* led c holds v1, its neighbour v2, every other led bg
EncLeds(c, v1, v2, bg) ==
    [i \in LedIds |-> IF i = c THEN v1
                      ELSE IF i = (c + 1) % TLC5940_MAX_LEDS THEN v2
                      ELSE bg]
\* what fb holds on entry: zeroes from devm_kzalloc, or the frame an earlier
\* run left for all leds at 0xFFF (ff ff ff ...) or at 0x5A5 (5a 55 a5 ...)
PriorFbs ==
    { ZeroFb,
      [i \in FbIndex |-> 255],
      [i \in FbIndex |-> IF i % 3 = 0 THEN 90 ELSE IF i % 3 = 1 THEN 85 ELSE 165] }

InitEnc ==
    /\ \E c \in LedIds, v1 \in EncValues, v2 \in EncValues,
          bg \in EncBackgrounds :
          brightness = EncLeds(c, v1, v2, bg)
    /\ fb \in PriorFbs
    /\ fb0 = fb
    /\ new_gs_data = TRUE
    /\ gpio_blank_valid = TRUE
    /\ blank = 0
    /\ timer_armed = TRUE
    /\ work_pending = FALSE
    /\ work_pc = "update_fb"
    /\ work_id = 0
    /\ set_pc = [w \in Writers |-> "idle"]
    /\ set_arg = [w \in Writers |-> NoArg]
    /\ tick_trace = << >>
    /\ tick_dirty = TRUE
    /\ sent = {}
    /\ spi_ret = 0
    /\ written = {}
    /\ snaps = {brightness}
    /\ runs_since_set = 1
    /\ fails_since_set = 0
    /\ nticks = 1
    /\ nwrites = 0
    /\ children = TLC5940_MAX_LEDS
    /\ probe_pc = "done"
    /\ probe_i = TLC5940_MAX_LEDS
    /\ probe_ret = 0
    /\ slots_written = LedIds
    /\ registered = LedIds
    /\ pwm_enabled = TRUE
    /\ remove_pc = "idle"
    /\ remove_i = 0

NextEnc == tlc5940_work_update_fb

SpecEnc == InitEnc /\ [][NextEnc]_vars

\* tlc5940_update_fb has returned
EncDone == work_pc = "spi_write"

(***************************************************************************)
(* tlc5940_probe (leds-tlc5940.c:175-276) from its entry, for a node with  *)
(* 0..MaxChildren child nodes.  Every call that can fail either fails,     *)
(* and probe returns its error, or succeeds.  tlc->leds has 16 elements:   *)
(* filling in tlc->leds[i] with i >= 16 writes over the members that       *)
(* follow the array (fb, new_gs_data, gpio_blank, timer, ...), so what     *)
(* they hold afterwards is any value.                                      *)
(***************************************************************************)
\* negative errno values: -ENOMEM, -EINVAL
Errnos == {-12, -22}
\* the calls of lines 179-223 that can fail, in order
SetupCalls == <<"devm_kzalloc", "of_get_named_gpio", "devm_gpio_request",
                "gpio_direction_output", "devm_of_pwm_get", "pwm_config">>

InitProbe ==
    /\ brightness = ZeroLeds
    /\ fb = ZeroFb
    /\ new_gs_data = FALSE
    /\ gpio_blank_valid \in BOOLEAN
    /\ blank = 0
    /\ timer_armed = FALSE
    /\ work_pending = FALSE
    /\ work_pc = "idle"
    /\ work_id = 0
    /\ set_pc = [w \in Writers |-> "idle"]
    /\ set_arg = [w \in Writers |-> NoArg]
    /\ tick_trace = << >>
    /\ tick_dirty = FALSE
    /\ sent = {}
    /\ spi_ret = 0
    /\ fb0 = ZeroFb
    /\ written = {}
    /\ snaps = {}
    /\ runs_since_set = 0
    /\ fails_since_set = 0
    /\ nticks = 0
    /\ nwrites = 0
    /\ children \in 0..MaxChildren
    /\ probe_pc = "setup"
    /\ probe_i = 0
    /\ probe_ret = 0
    /\ slots_written = {}
    /\ registered = {}
    /\ pwm_enabled = FALSE
    /\ remove_pc = "idle"
    /\ remove_i = 0

\* lines 179-233: the n-th call of SetupCalls fails and probe returns
tlc5940_probe_setup_fails(n, ret) ==
    /\ probe_pc = "setup"
    /\ probe_ret' = ret
    /\ probe_pc' = "done"
    \* gpio_direction_output(tlc->gpio_blank, 1) has been called by then
    /\ blank' = IF n > 4 THEN 1 ELSE blank
    /\ UNCHANGED <<brightness, fb, new_gs_data, gpio_blank_valid,
                   timer_armed, work_pending, work_pc, work_id, set_pc,
                   set_arg, tick_trace, tick_dirty, sent, spi_ret, fb0,
                   written, snaps, runs_since_set, fails_since_set, nticks,
                   nwrites, children, probe_i, slots_written, registered,
                   pwm_enabled, remove_pc, remove_i>>

\* lines 179-248 with every call succeeding
tlc5940_probe_setup_ok ==
    /\ probe_pc = "setup"
    /\ blank' = 1
    /\ pwm_enabled' = TRUE
    /\ timer_armed' = TRUE
    /\ new_gs_data' = TRUE
    /\ probe_i' = 0
    /\ probe_pc' = "children"
    /\ UNCHANGED <<brightness, fb, gpio_blank_valid, work_pending, work_pc,
                   work_id, set_pc, set_arg, tick_trace, tick_dirty, sent,
                   spi_ret, fb0, written, snaps, runs_since_set,
                   fails_since_set, nticks, nwrites, children, probe_ret,
                   slots_written, registered, remove_pc, remove_i>>

\* one iteration of for_each_child_of_node (lines 249-264); ret is what
\* led_classdev_register returns
tlc5940_probe_child(ret) ==
    /\ probe_pc = "children"
    /\ probe_i < children
    /\ slots_written' = slots_written \cup {probe_i}
    /\ IF probe_i \in LedIds
       THEN /\ brightness' = [brightness EXCEPT ![probe_i] = LED_OFF]
            /\ UNCHANGED <<fb, new_gs_data, gpio_blank_valid, timer_armed>>
       ELSE \* led = &(tlc->leds[i]) points past the array
            /\ fb' \in PriorFbs
            /\ new_gs_data' \in BOOLEAN
            /\ gpio_blank_valid' \in BOOLEAN
            /\ timer_armed' \in BOOLEAN
            /\ UNCHANGED brightness
    /\ IF ret < 0
       THEN \* goto eledcr
            /\ probe_ret' = ret
            /\ probe_pc' = "eledcr"
            /\ UNCHANGED <<registered, probe_i>>
       ELSE /\ registered' = registered \cup {probe_i}
            /\ probe_i' = probe_i + 1
            /\ UNCHANGED <<probe_ret, probe_pc>>
    /\ UNCHANGED <<blank, work_pending, work_pc, work_id, set_pc, set_arg,
                   tick_trace, tick_dirty, sent, spi_ret, fb0, written,
                   snaps, runs_since_set, fails_since_set, nticks, nwrites,
                   children, pwm_enabled, remove_pc, remove_i>>

\* the loop is over: spi_set_drvdata(spi, tlc); return 0;
tlc5940_probe_return ==
    /\ probe_pc = "children"
    /\ probe_i >= children
    /\ probe_ret' = 0
    /\ probe_pc' = "done"
    /\ UNCHANGED <<brightness, fb, new_gs_data, gpio_blank_valid, blank,
                   timer_armed, work_pending, work_pc, work_id, set_pc,
                   set_arg, tick_trace, tick_dirty, sent, spi_ret, fb0,
                   written, snaps, runs_since_set, fails_since_set, nticks,
                   nwrites, children, probe_i, slots_written, registered,
                   pwm_enabled, remove_pc, remove_i>>

\* an unwinding that tests --i and so leaves tlc->leds[0] registered
tlc5940_probe_eledcr_predecrement ==
    /\ probe_pc = "eledcr"
    /\ probe_i' = probe_i - 1
    /\ IF probe_i - 1 > 0
       THEN /\ registered' = registered \ {probe_i - 1}
            /\ UNCHANGED probe_pc
       ELSE /\ probe_pc' = "done"
            /\ UNCHANGED registered
    /\ UNCHANGED <<brightness, fb, new_gs_data, gpio_blank_valid, blank,
                   timer_armed, work_pending, work_pc, work_id, set_pc,
                   set_arg, tick_trace, tick_dirty, sent, spi_ret, fb0,
                   written, snaps, runs_since_set, fails_since_set, nticks,
                   nwrites, children, probe_ret, slots_written, pwm_enabled,
                   remove_pc, remove_i>>

\* eledcr: while (i--) led_classdev_unregister(&tlc->leds[i].ldev);
\* return ret;  -- one test of i-- and, if it was not 0, one unregister
tlc5940_probe_eledcr ==
    /\ probe_pc = "eledcr"
    /\ probe_i' = probe_i - 1
    /\ IF probe_i # 0
       THEN /\ registered' = registered \ {probe_i - 1}
            /\ UNCHANGED probe_pc
       ELSE /\ probe_pc' = "done"
            /\ UNCHANGED registered
    /\ UNCHANGED <<brightness, fb, new_gs_data, gpio_blank_valid, blank,
                   timer_armed, work_pending, work_pc, work_id, set_pc,
                   set_arg, tick_trace, tick_dirty, sent, spi_ret, fb0,
                   written, snaps, runs_since_set, fails_since_set, nticks,
                   nwrites, children, probe_ret, slots_written, pwm_enabled,
                   remove_pc, remove_i>>

tlc5940_probe ==
    \/ \E n \in DOMAIN SetupCalls, ret \in Errnos :
          tlc5940_probe_setup_fails(n, ret)
    \/ tlc5940_probe_setup_ok
    \/ \E ret \in Errnos \cup {0} : tlc5940_probe_child(ret)
    \/ tlc5940_probe_return
    \/ tlc5940_probe_eledcr

SpecProbe == InitProbe /\ [][tlc5940_probe]_vars

(***************************************************************************)
(* tlc5940_probe followed, when it returned 0, by tlc5940_remove, for a    *)
(* node with 0..MaxChildren child nodes.                                   *)
(***************************************************************************)
NextProbeRemove ==
    \/ tlc5940_probe
    \/ tlc5940_remove

SpecProbeRemove == InitProbe /\ [][NextProbeRemove]_vars

(***************************************************************************)
(* Properties of the encoder, checked under SpecEnc.                       *)
(***************************************************************************)
InRange(v) == v \in 0 .. MAX_BRIGHTNESS
\* every led off but led c, which holds 0xFFF
OnlyLed(c) == [i \in LedIds |-> IF i = c THEN 4095 ELSE 0]
RestZero(from) == \A i \in from .. (TLC5940_FB_SIZE - 1) : fb[i] = 0

\* C4 as the claim states it: with channel 0 = 0xFFF and every other
\* channel 0 the buffer begins 0xFF, 0xF0 and is 0x00 after that; with
\* channel 15 = 0xFFF and every other channel 0 the last byte is 0xFF and
\* the low nibble of the byte before it is 0xF.
C4_ReferenceVectors_AsClaimed ==
    EncDone =>
        /\ (brightness = OnlyLed(0)) =>
               (fb[0] = 255 /\ fb[1] = 240 /\ RestZero(2))
        /\ (brightness = OnlyLed(15)) =>
               (fb[23] = 255 /\ fb[22] % 16 = 15)

\* C4 (amended): the reference vectors with the channels exchanged.  With
\* channel 15 = 0xFFF and every other channel 0 the buffer begins 0xFF, 0xF0
\* and is 0x00 after that; with channel 0 = 0xFFF and every other channel 0
\* the last byte is 0xFF, the low nibble of the byte before it is 0xF, and
\* every other bit of the buffer is 0.
C4_ReferenceVectors ==
    EncDone =>
        /\ (brightness = OnlyLed(15)) =>
               (fb[0] = 255 /\ fb[1] = 240 /\ RestZero(2))
        /\ (brightness = OnlyLed(0)) =>
               /\ fb[23] = 255
               /\ fb[22] = 15
               /\ \A i \in 0 .. 21 : fb[i] = 0

C4_Witness ==
    /\ EncDone
    /\ brightness = OnlyLed(15)
    /\ fb0 # ZeroFb
    /\ fb[0] = 255

\* C5 as the claim states it: for every even-indexed channel a and the
\* odd-indexed channel a+1 the buffer holds, at three consecutive bytes,
\* a>>4, ((a<<4) & 0xf0) | (b>>8), b & 0xff.
C5_PairPacking_AsClaimed ==
    EncDone =>
        \A a \in {i \in LedIds : i % 2 = 0} :
            LET va == brightness[a]
                vb == brightness[a + 1]
            IN  (InRange(va) /\ InRange(vb)) =>
                    \E o \in 0 .. (TLC5940_FB_SIZE - 3) :
                        /\ fb[o] = va \div 16
                        /\ fb[o + 1] = (va % 16) * 16 + (vb \div 256)
                        /\ fb[o + 2] = vb % 256

\* C5 (amended): the pair is an odd-indexed channel a followed by the
\* even-indexed channel b = a-1.  The three bytes at index 3*(15-a)/2 are
\* a>>4, ((a<<4) & 0xf0) | (b>>8), b & 0xff: each odd channel supplies a
\* full byte plus a high nibble, each even channel a low nibble plus a full
\* byte.
C5_PairPacking ==
    EncDone =>
        \A a \in {i \in LedIds : i % 2 = 1} :
            LET va == brightness[a]
                vb == brightness[a - 1]
                o == 3 * ((15 - a) \div 2)
            IN  (InRange(va) /\ InRange(vb)) =>
                    /\ fb[o] = va \div 16
                    /\ fb[o + 1] = (va % 16) * 16 + (vb \div 256)
                    /\ fb[o + 2] = vb % 256

C5_Witness ==
    /\ EncDone
    /\ brightness[3] = 2748
    /\ brightness[2] = 4094
    /\ fb[18] = 171 /\ fb[19] = 207 /\ fb[20] = 254

\* bit p of the buffer, counted from the most significant bit of byte 0
BufferBit(f, p) == (f[p \div 8] \div Pow2(7 - (p % 8))) % 2
\* bit k of a 12-bit value, counted from its most significant bit
ValueBit(v, k) == (v \div Pow2(11 - k)) % 2

\* C6: for every channel id, once tlc5940_update_fb has returned, the 12
\* bits of the channel's value are bits 192 - 12*(id+1) .. +11 of the
\* buffer, counted from the most significant bit of byte 0, most
\* significant value bit first.
C6_BitOffsetLayout ==
    EncDone =>
        \A id \in LedIds :
            InRange(brightness[id]) =>
                \A k \in 0 .. 11 :
                    BufferBit(fb, 192 - 12 * (id + 1) + k)
                        = ValueBit(brightness[id], k)

C6_Witness ==
    /\ EncDone
    /\ brightness[7] = 2748
    /\ BufferBit(fb, 96) = 1 /\ BufferBit(fb, 97) = 0
    /\ BufferBit(fb, 107) = 0 /\ BufferBit(fb, 106) = 0

\* the inverse of the packed layout: reads channel id back out of a buffer
gs_decode(f, id) ==
    LET o == (3 * (15 - id)) \div 2
    IN  IF id % 2 = 1 THEN f[o] * 16 + (f[o + 1] \div 16)
                      ELSE (f[o] % 16) * 256 + f[o + 1]

\* C7: decoding the buffer tlc5940_update_fb wrote gives back the exact
\* value of every channel that holds a value in 0..4095, the boundary
\* values 0, 1, 4094, 4095 included: no channel's bits are overwritten by
\* another channel's.
C7_RoundTrip ==
    EncDone =>
        \A id \in LedIds :
            InRange(brightness[id]) => gs_decode(fb, id) = brightness[id]

C7_Witness ==
    /\ EncDone
    /\ \A id \in LedIds : InRange(brightness[id])
    /\ brightness[4] = 4094 /\ brightness[5] = 1
    /\ gs_decode(fb, 4) = 4094 /\ gs_decode(fb, 5) = 1
    /\ fb0 # ZeroFb

\* C8: the buffer tlc5940_update_fb leaves is the same whatever the buffer
\* held before: all 24 bytes are rewritten from the brightness values alone,
\* and the indices written are exactly 0..23.
C8_Wholesale ==
    EncDone =>
        /\ \A prior \in PriorFbs : tlc5940_update_fb(prior, brightness) = fb
        /\ written = FbIndex

C8_Witness ==
    /\ EncDone
    /\ fb0 = [i \in FbIndex |-> 255]
    /\ brightness = ZeroLeds
    /\ fb = ZeroFb
    /\ written = FbIndex

(***************************************************************************)
(* Properties of the driver with its threads interleaved, checked under    *)
(* Spec.                                                                   *)
(***************************************************************************)
\* no tlc5940_set_brightness call is in progress, no work queued or running
Quiescent ==
    /\ \A w \in Writers : set_pc[w] = "idle"
    /\ work_pc = "idle"
    /\ ~work_pending
\* the frame that encodes the brightness values as they stand
CurrentFrame == tlc5940_update_fb(ZeroFb, brightness)

\* C1: no lost update.  A store made by tlc5940_set_brightness while a
\* transmit is under way is not erased by that transmit's new_gs_data = 0:
\* whenever the flag is clear and nothing is queued, running or being
\* written, the frame last transmitted holds the current value of every
\* channel (otherwise a later tick would still have to see the flag set).
C1_NoLostUpdate ==
    (Quiescent /\ ~new_gs_data) => sent = {CurrentFrame}

\* C2: snapshot consistency.  The frame tlc5940_work hands to spi_write is
\* the encoding of the 16 brightness values as they all stood at one instant
\* between the start of tlc5940_update_fb and its end.
C2_SnapshotConsistency ==
    (work_pc = "spi_write") =>
        \E s \in snaps : fb = tlc5940_update_fb(ZeroFb, s)

\* C3: coalescing.  After the latest tlc5940_set_brightness store there is
\* exactly one transmit: never a second run of tlc5940_work unless an
\* spi_write failed, and once the flag is clear and the driver is at rest
\* one run has happened and its frame carries the final value of every
\* channel.
C3_Coalescing ==
    /\ runs_since_set <= 1 + fails_since_set
    /\ (Quiescent /\ ~new_gs_data) =>
           (runs_since_set >= 1 /\ sent = {CurrentFrame})

\* the nearest value in 0..4095
Clamp12(v) == IF v < 0 THEN 0 ELSE IF v > MAX_BRIGHTNESS THEN MAX_BRIGHTNESS ELSE v

\* C9: clamping.  The store of tlc5940_set_brightness writes the nearest
\* value in 0..4095 of its argument, so a stored brightness is always
\* within 0..4095.
C9_Clamping ==
    [][\A w \in Writers :
          (set_pc[w] = "store" /\ set_pc'[w] = "idle") =>
              /\ brightness'[set_arg[w].id] = Clamp12(set_arg[w].value)
              /\ \A id \in LedIds : InRange(brightness'[id])]_vars

IsGpioWrite(e) == e \in {"gpio_set_value 1", "gpio_set_value 0"}

\* C10: clean tick.  A timer expiration that finds new_gs_data false and the
\* BLANK gpio valid writes BLANK high then low, leaves the line low, and
\* does not schedule tlc5940_work: it makes no spi_write happen.
C10_CleanTick ==
    [][(nticks' = nticks + 1 /\ ~new_gs_data /\ gpio_blank_valid) =>
          /\ SelectSeq(tick_trace', IsGpioWrite)
                = <<"gpio_set_value 1", "gpio_set_value 0">>
          /\ blank' = 0
          /\ \A i \in 1 .. Len(tick_trace') : tick_trace'[i] # "schedule_work"
          /\ work_pending' = work_pending
          /\ UNCHANGED <<work_pc, sent, fb>>]_vars

C10_Witness ==
    /\ nticks >= 2
    /\ ~tick_dirty
    /\ ~new_gs_data
    /\ tick_trace = <<"hrtimer_forward_now", "gpio_set_value 1",
                      "gpio_set_value 0">>
    /\ blank = 0
    /\ Quiescent
    /\ sent # {}

C12_EventualDelivery ==
    gpio_blank_valid => <>[](sent = {CurrentFrame})

\* C13: startup forces transmit.  new_gs_data is true until the first
\* tlc5940_timer_func has run, whether or not tlc5940_set_brightness was
\* called; the first expiration with a valid BLANK line therefore reads the
\* flag true and schedules tlc5940_work; and once it has run, the work is
\* queued or running or has called spi_write with the 24-byte frame.
C13_StartupForcesTransmit ==
    /\ [](nticks = 0 => (new_gs_data /\ sent = {} /\ work_pc = "idle"))
    /\ []((nticks >= 1 /\ gpio_blank_valid) =>
            (work_pending \/ work_pc # "idle" \/ sent # {} \/ spi_ret # 0))
    /\ []((sent # {}) => (DOMAIN CHOOSE f \in sent : TRUE) = FbIndex)
    /\ [][(nticks = 0 /\ nticks' = 1 /\ gpio_blank_valid) =>
            /\ tick_dirty'
            /\ work_pending'
            /\ tick_trace'[Len(tick_trace')] = "schedule_work"]_vars

\* the first transmit was triggered by the first expiration and no
\* tlc5940_set_brightness call was ever made
C13_Witness ==
    /\ nticks = 1
    /\ nwrites = 0
    /\ tick_dirty
    /\ sent = {ZeroFb}
    /\ written = FbIndex
    /\ runs_since_set = 1

\* C14: BLANK is never skipped.  Every tlc5940_timer_func that finds the BLANK
\* gpio valid writes it 1 and then 0, once each and in that order, and
\* returns HRTIMER_RESTART, whatever new_gs_data is and whatever the latest
\* spi_write returned; the step in which spi_write returns, with an error or
\* not, changes neither the timer nor the BLANK line; and the timer stays
\* armed as long as the gpio is valid.
C14_BlankNeverSkipped ==
    /\ [](gpio_blank_valid => timer_armed)
    /\ [][/\ (nticks' = nticks + 1 /\ gpio_blank_valid) =>
              /\ SelectSeq(tick_trace', IsGpioWrite)
                    = <<"gpio_set_value 1", "gpio_set_value 0">>
              /\ blank' = 0
              /\ timer_armed'
          /\ (work_pc = "spi_write" /\ work_pc' # "spi_write") =>
              UNCHANGED <<timer_armed, blank, nticks>>]_vars

\* the third expiration has pulsed BLANK and re-armed the timer after two
\* runs of tlc5940_work failed: with no call of tlc5940_set_brightness, the
\* third run is under way, so the third expiration queued it after the
\* second run had begun, that is after the first had failed
C14_Witness ==
    /\ nwrites = 0
    /\ nticks = 3
    /\ runs_since_set = 3
    /\ fails_since_set = 2
    /\ work_pc = "update_fb"
    /\ spi_ret # 0
    /\ SelectSeq(tick_trace, IsGpioWrite)
          = <<"gpio_set_value 1", "gpio_set_value 0">>
    /\ blank = 0
    /\ timer_armed

\* C15: hardware link failure is terminal.  A tlc5940_timer_func that finds
\* the BLANK gpio invalid makes no gpio_set_value call and no schedule_work
\* call, leaves the BLANK line and the work as they are and returns
\* HRTIMER_NORESTART; once the timer is not armed there is no further
\* expiration, the BLANK line never changes, and tlc5940_work is neither
\* queued nor started, so no spi_write follows.
C15_LinkFailureTerminal ==
    /\ [][/\ (nticks' = nticks + 1 /\ ~gpio_blank_valid) =>
              /\ tick_trace' = <<"hrtimer_forward_now">>
              /\ ~timer_armed'
              /\ UNCHANGED <<blank, work_pending, work_pc, sent, spi_ret>>
          /\ ~timer_armed =>
              /\ UNCHANGED <<nticks, blank, tick_trace, timer_armed>>
              /\ (work_pending' => work_pending)
              /\ ~(work_pc = "idle" /\ work_pc' # "idle")]_vars
    /\ []((~gpio_blank_valid /\ nticks >= 1) =>
            (~timer_armed /\ nticks = 1 /\ blank = 1 /\ sent = {}
             /\ ~work_pending /\ work_pc = "idle"))

\* after the expiration that found the gpio invalid, callers still store
\* brightness values and nothing is sent
C15_Witness ==
    /\ ~gpio_blank_valid
    /\ ~timer_armed
    /\ nticks = 1
    /\ tick_trace = <<"hrtimer_forward_now">>
    /\ nwrites = MaxWrites
    /\ \E id \in LedIds : brightness[id] # LED_OFF
    /\ new_gs_data
    /\ sent = {}

\* C16: teardown quiescence.  When tlc5940_remove has returned the hrtimer
\* is not armed and tlc5940_work is neither queued nor running, and from
\* then on, whatever the callers of tlc5940_set_brightness did or do, there
\* is no further expiration, no write to the BLANK line, no spi_write and
\* no write to the framebuffer.
C16_TeardownQuiescence ==
    /\ [](remove_pc = "done" =>
            (~timer_armed /\ ~work_pending /\ work_pc = "idle"))
    /\ [][remove_pc = "done" =>
            UNCHANGED <<nticks, blank, tick_trace, sent, spi_ret, fb, work_pc,
                   work_pending, timer_armed>>]_vars

\* remove has returned after a transmit, with a later store of a caller
\* left unsent and new_gs_data set
C16_Witness ==
    /\ remove_pc = "done"
    /\ registered = {}
    /\ nticks >= 1
    /\ sent # {}
    /\ new_gs_data
    /\ nwrites >= 1
    /\ \E id \in LedIds : brightness[id] # LED_OFF
    /\ sent # {CurrentFrame}

\* C17: initialization rollback.  When led_classdev_register fails for child
\* k, tlc5940_probe leaves the loop with that error, unregisters
\* leds[k-1] down to leds[0] and returns the error: when it has returned a
\* negative value no led is registered, and when it has returned 0 the leds
\* registered are those of the children.
C17_InitRollback ==
    /\ []((probe_pc = "done" /\ probe_ret < 0) => registered = {})
    /\ []((probe_pc = "done" /\ probe_ret = 0) =>
            registered = 0..(children - 1))
    /\ []((probe_pc = "eledcr") =>
            (probe_ret < 0 /\ registered = 0..(probe_i - 1)))
    /\ [][/\ (probe_pc = "children" /\ probe_pc' = "eledcr") =>
              (probe_ret' \in Errnos /\ registered = 0..(probe_i - 1)
               /\ probe_i \in slots_written')
          /\ (probe_pc = "eledcr") => UNCHANGED probe_ret]_vars

\* probe has returned an error after registering the first three children
C17_Witness ==
    /\ probe_pc = "done"
    /\ probe_ret < 0
    /\ slots_written = 0..3
    /\ registered = {}
    /\ probe_i = -1
    /\ children > 4

\* C18: invalid channel fails fast.  tlc5940_probe fills in and registers
\* only tlc->leds[i] with i in 0..15, each i once, and for a node with more
\* than 16 children it returns an error.
C18_ChannelRange ==
    /\ slots_written \subseteq LedIds
    /\ registered \subseteq LedIds
    /\ (probe_pc = "done" /\ children > TLC5940_MAX_LEDS) => probe_ret < 0

\* C19: brightness-set does no I/O.  A step of tlc5940_set_brightness leaves
\* the framebuffer, the BLANK line, the timer, the work and what was sent
\* unchanged: its first step only sets new_gs_data, its second only stores
\* the brightness of the led it was called for.  tlc5940_work is queued only
\* by a tlc5940_timer_func that read new_gs_data true, and starts only from
\* the queue.
C19_SetBrightnessNoIO ==
    [][/\ (set_pc' # set_pc) =>
          /\ UNCHANGED <<fb, blank, timer_armed, work_pending, work_pc, work_id,
                   sent, spi_ret, nticks, tick_trace>>
          /\ \A w \in Writers :
                /\ (set_pc[w] = "idle" /\ set_pc'[w] = "store") =>
                      (new_gs_data' /\ UNCHANGED brightness)
                /\ (set_pc[w] = "store" /\ set_pc'[w] = "idle") =>
                      /\ UNCHANGED new_gs_data
                      /\ \A id \in LedIds \ {set_arg[w].id} :
                            brightness'[id] = brightness[id]
       /\ (~work_pending /\ work_pending') =>
             (nticks' = nticks + 1 /\ new_gs_data /\ tick_dirty')
       /\ (work_pc = "idle" /\ work_pc' # "idle") =>
             (work_pending /\ ~work_pending')]_vars

\* a call has stored a value after a transmit: the flag is set and nothing
\* is queued or sent until the next expiration
C19_Witness ==
    /\ nwrites >= 1
    /\ \A w \in Writers : set_pc[w] = "idle"
    /\ \E id \in LedIds : brightness[id] # LED_OFF
    /\ new_gs_data
    /\ ~tick_dirty
    /\ ~work_pending
    /\ work_pc = "idle"
    /\ sent = {ZeroFb}
    /\ fb = ZeroFb

\* position of call e in the trace t of a callback, 0 if it was not made
CallIndex(t, e) ==
    IF \E i \in DOMAIN t : t[i] = e
    THEN CHOOSE i \in DOMAIN t : t[i] = e
    ELSE 0

\* C20 as the claim states it: both writes to BLANK come before the timer
\* is re-armed, and the conditional schedule_work after it.
C20_TickOrder_AsClaimed ==
    [][(nticks' = nticks + 1 /\ gpio_blank_valid) =>
          /\ CallIndex(tick_trace', "gpio_set_value 1")
                < CallIndex(tick_trace', "gpio_set_value 0")
          /\ CallIndex(tick_trace', "gpio_set_value 0")
                < CallIndex(tick_trace', "hrtimer_forward_now")
          /\ new_gs_data =>
                CallIndex(tick_trace', "hrtimer_forward_now")
                  < CallIndex(tick_trace', "schedule_work")]_vars

\* C20: tick step order.  In every tlc5940_timer_func with a valid BLANK
\* gpio the next expiry is set first (hrtimer_forward_now), then BLANK is
\* written 1 and then 0, then new_gs_data is tested and schedule_work called
\* if and only if it is true, and then the callback returns
\* HRTIMER_RESTART, which is what arms the timer again.
C20_TickOrder ==
    [][(nticks' = nticks + 1 /\ gpio_blank_valid) =>
          /\ CallIndex(tick_trace', "hrtimer_forward_now") = 1
          /\ CallIndex(tick_trace', "gpio_set_value 1") = 2
          /\ CallIndex(tick_trace', "gpio_set_value 0") = 3
          /\ CallIndex(tick_trace', "schedule_work")
                = (IF new_gs_data THEN 4 ELSE 0)
          /\ Len(tick_trace') = (IF new_gs_data THEN 4 ELSE 3)
          /\ timer_armed']_vars

\* a later expiration that found new_gs_data set by a caller
C20_Witness ==
    /\ nticks >= 2
    /\ nwrites >= 1
    /\ tick_dirty
    /\ sent # {}
    /\ tick_trace = <<"hrtimer_forward_now", "gpio_set_value 1",
                       "gpio_set_value 0", "schedule_work">>
    /\ work_pending
    /\ timer_armed

\* C21: a tick is one atomic refresh step.  When tlc5940_timer_func pulses
\* BLANK, the tlc5940_work that an earlier expiration scheduled has run to
\* its end (it is neither queued nor between its entry and its return, so
\* no spi_write is ahead or under way), and a run of tlc5940_work begins
\* only when no other run is under way.
C21_AtomicRefresh ==
    [][/\ (nticks' = nticks + 1 /\ gpio_blank_valid) =>
             (work_pc = "idle" /\ ~work_pending)
       /\ (work_pc # "update_fb" /\ work_pc' = "update_fb") =>
             work_pc = "idle"]_vars

\* C22: failed initialization leaves nothing running.  When tlc5940_probe has
\* returned an error, the hrtimer is not armed and the GSCLK pwm is not
\* running, whether the error came before or after hrtimer_start and
\* pwm_enable.
C22_FailedProbeStopsAll ==
    (probe_pc = "done" /\ probe_ret < 0) => (~timer_armed /\ ~pwm_enabled)

\* C23: register/unregister pairing.  Every led_classdev_unregister that
\* tlc5940_remove calls is for a led that is registered at that moment, and
\* when tlc5940_remove has returned no led that tlc5940_probe registered is
\* still registered.
C23_RegisterPairing ==
    /\ [][(remove_pc = "unregister" /\ remove_i' = remove_i + 1) =>
            remove_i \in registered]_vars
    /\ [](remove_pc = "done" => registered = {})

====
